---- MODULE Spec2Model ----
(***************************************************************************)
(* Model of the two uavmvs programs                                        *)
(*   - the guidance-volume sampler      (src/unnamed/part_000, main)       *)
(*   - the trajectory evaluator         (src/apps/evaluate_trajectory/     *)
(*                                       evaluate_trajectory.cu, main)     *)
(*                                                                         *)
(* Numbers.  World coordinates, the resolution and the altitudes are       *)
(* integers in one common unit, so that (max - min) / resolution is a      *)
(* rational whose truncation (the C++ float -> int conversion) is computed *)
(* exactly by TruncDiv.  A resolution of 2 against an extent of 3 is the   *)
(* model of a non-integral ratio 1.5.                                      *)
(***************************************************************************)
EXTENDS Integers, Sequences, FiniteSets, TLC

(***************************************************************************)
(* Bounds of the model.                                                    *)
(***************************************************************************)
MaxVerts == 3        \* an airspace mesh has 1..MaxVerts vertices
MaxThreads == 2      \* the OpenMP team has 1..MaxThreads workers
MaxCams == 22        \* a trajectory has 0..MaxCams cameras
NumPoints == 2       \* the proxy cloud has NumPoints points

(***************************************************************************)
(* Program constants.                                                      *)
(***************************************************************************)
\* std::numeric_limits<float>::lowest(), the "unset" cell of the height map.
\* Every vertex height of the model is above it and below FloatMax.
lowest == -1000
\* std::numeric_limits<float>::max(), the start value of the min-reduction.
FloatMax == 1000

VARIABLES
    prog,            \* which program runs: "sampler" or "evaluator"
    pc,              \* position of the main thread
    exit_status,     \* "running", "success", "failure" (std::exit(EXIT_FAILURE)), "abort" (assert)
    output,          \* the output files written so far
    ndebug,          \* build configuration: TRUE when assert() is compiled out
    loads,           \* the loads attempted so far, in order: <<file, succeeded>>
    args,            \* the parsed command line
    airspace,        \* the vertex list stored in the airspace mesh file
    nthreads,        \* size of the OpenMP team
    verts,           \* mesh->get_vertices()
    aabb,            \* [min |-> <<x,y,z>>, max |-> <<x,y,z>>]
    dims,            \* [width, height, depth]
    hmap,            \* the height map, a function on its cells
    ground_level,
    sample_positions,
    volume,          \* voxel -> image, for the voxels that own an image
    next_i,          \* the shared iteration counter of the dynamically scheduled loop
    wpc,             \* position of each worker
    cur,             \* the iteration each worker is executing
    stream,          \* per worker: operations enqueued on its stream, not yet executed
    dobs_hist,       \* per worker: contents of the device scratch histogram
    dhist,           \* per worker: contents of the device result image
    hist,            \* per worker: contents of the host result image
    wlog,            \* per worker: what has happened for its current sample, in order
    calib_writers,   \* workers that have written the shared calibration matrix
    counter,         \* ProgressCounter: samples finished
    scene,           \* the camera poses stored in the scene
    trajectory,      \* the loaded camera poses
    cam_i,           \* number of cameras whose kernel has been launched
    ddir_hist,       \* device row store: [max_rows, num_rows, data]
    hdir_hist,       \* host copy of the row store
    values           \* per-point scalar attached to the exported cloud

svars == <<args, airspace, nthreads, verts, aabb, dims, hmap, ground_level,
           sample_positions>>
wvars == <<volume, next_i, wpc, cur, stream, dobs_hist, dhist, hist, wlog,
           calib_writers, counter>>
evars == <<scene, trajectory, cam_i, ddir_hist, hdir_hist, values>>
vars == <<prog, pc, exit_status, output, ndebug, loads, svars, wvars, evars>>

NoValue == "none"

(***************************************************************************)
(* Arithmetic of the conversions.                                          *)
(***************************************************************************)
\* float -> int conversion of the quotient n / d (d > 0): truncation toward zero.
TruncDiv(n, d) == IF n >= 0 THEN n \div d ELSE -((-n) \div d)

Max2(a, b) == IF a >= b THEN a ELSE b
Min2(a, b) == IF a <= b THEN a ELSE b

RECURSIVE SeqMin(_, _), SeqMax(_, _)
SeqMin(s, k) == IF Len(s) = 1 THEN s[1][k]
                ELSE Min2(s[1][k], SeqMin(Tail(s), k))
SeqMax(s, k) == IF Len(s) = 1 THEN s[1][k]
                ELSE Max2(s[1][k], SeqMax(Tail(s), k))

\* acc::calculate_aabb(verts)
calculate_aabb(vs) ==
    [min |-> <<SeqMin(vs, 1), SeqMin(vs, 2), SeqMin(vs, 3)>>,
     max |-> <<SeqMax(vs, 1), SeqMax(vs, 2), SeqMax(vs, 3)>>]

\* acc::valid(aabb)
valid(b) == \A k \in 1..3 : b.min[k] <= b.max[k]

\* acc::volume(aabb)
AabbVolume(b) ==
    (b.max[1] - b.min[1]) * (b.max[2] - b.min[2]) * (b.max[3] - b.min[3])

\* assert(acc::valid(aabb) && acc::volume(aabb) > 0.0f)
AabbAssertion(b) == valid(b) /\ AabbVolume(b) > 0

(***************************************************************************)
(* Sampler: grid dimensions (lines 134-136).                               *)
(***************************************************************************)
\* int n = extent / resolution + 1.0f;   (float -> int truncates)
GridSizeNoExtraCell(extent, resolution) == TruncDiv(extent, resolution)
GridSize(extent, resolution) == TruncDiv(extent + resolution, resolution)

GridDims(b, a) ==
    [width  |-> GridSize(b.max[1] - b.min[1], a.resolution),
     height |-> GridSize(b.max[2] - b.min[2], a.resolution),
     depth  |-> GridSize(a.max_altitude, a.resolution)]

Cells(d) == (0..(d.width - 1)) \X (0..(d.height - 1))

(***************************************************************************)
(* Sampler: height map (lines 140-154).                                    *)
(***************************************************************************)
\* int x = (vertex[0] - aabb.min[0]) / args.resolution;  likewise y
CellOf(v, b, a) ==
    <<TruncDiv(v[1] - b.min[1], a.resolution),
      TruncDiv(v[2] - b.min[2], a.resolution)>>

\* the two assertions of the scan: 0 <= x < width, 0 <= y < height
CellInRange(c, d) ==
    /\ 0 <= c[1] /\ c[1] < d.width
    /\ 0 <= c[2] /\ c[2] < d.height

\* one iteration of the scan: if (z > height) continue; hmap->at(x, y, 0) = height;
ScanVertexKeepFirst(h, v, b, a) ==
    LET c == CellOf(v, b, a)
    IN  IF h[c] # lowest THEN h ELSE [h EXCEPT ![c] = v[3]]
ScanVertex(h, v, b, a) ==
    LET c == CellOf(v, b, a)
    IN  IF h[c] > v[3] THEN h ELSE [h EXCEPT ![c] = v[3]]

RECURSIVE ScanFrom(_, _, _, _, _)
ScanFrom(h, vs, i, b, a) ==
    IF i > Len(vs) THEN h
    ELSE ScanFrom(ScanVertex(h, vs[i], b, a), vs, i + 1, b, a)

\* hmap->fill(lowest) followed by the scan over all vertices
BuildHeightMap(vs, b, d, a) ==
    ScanFrom([c \in Cells(d) |-> lowest], vs, 1, b, a)

(***************************************************************************)
(* Sampler: ground level and normalisation (lines 156-170).                *)
(***************************************************************************)
\* min-reduction over the cells that are not "lowest", started at FloatMax
EstimateGroundLevel(h) ==
    LET set == {FloatMax} \cup {h[c] : c \in {c \in DOMAIN h : h[c] # lowest}}
    IN  CHOOSE m \in set : \A e \in set : m <= e

\* hmap->at(i) = (height != lowest) ? height - ground_level : 0.0f;
NormalizeHeightMap(h, g) ==
    [c \in DOMAIN h |-> IF h[c] # lowest THEN h[c] - g ELSE 0]

(***************************************************************************)
(* Sampler: enumeration of the sample positions (lines 173-194).           *)
(***************************************************************************)
\* float fz = std::max(hmap->at(x, y, 0), args.min_altitude);
MinHeight(h, x, y, a) == Max2(h[<<x, y>>], a.min_altitude)

\* float pz = ground_level + z * args.resolution;
WorldHeight(g, z, a) == g + z * a.resolution

\* if (pz < fz) continue;  sample_positions.emplace_back(x, y, z);
KeepVoxelStrict(h, g, p, a) ==
    ~(WorldHeight(g, p[3], a) <= MinHeight(h, p[1], p[2], a))
KeepVoxel(h, g, p, a) ==
    ~(WorldHeight(g, p[3], a) < MinHeight(h, p[1], p[2], a))

\* the k-th voxel (k from 0) in the order of the loops: y outermost, then x, then z
VoxelAt(k, d) ==
    <<(k \div d.depth) % d.width, k \div (d.depth * d.width), k % d.depth>>

AllVoxels(d) ==
    IF d.width <= 0 \/ d.height <= 0 \/ d.depth <= 0 THEN << >>
    ELSE [k \in 1..(d.width * d.height * d.depth) |-> VoxelAt(k - 1, d)]

EnumerateSamples(h, g, d, a) ==
    LET Keep(p) == KeepVoxel(h, g, p, a)
    IN  SelectSeq(AllVoxels(d), Keep)

(***************************************************************************)
(* Inputs: the command lines and the files the programs are run on.        *)
(***************************************************************************)
Vertices == {0, 1} \X {0, 1} \X {-2, -1, 1}

\* every vertex list of 1..MaxVerts vertices, in every order
GeomMeshes == UNION {[1..n -> Vertices] : n \in 1..MaxVerts}
GeomArgs == [resolution : {1, 2}, min_altitude : {0, 1}, max_altitude : {2}]

\* the planar 10 x 10 airspace mesh at height 5 and its command line
ScenarioMesh == << <<0, 0, 5>>, <<10, 0, 5>>, <<0, 10, 5>>, <<10, 10, 5>> >>
ScenarioArgs == [resolution |-> 1, min_altitude |-> 0, max_altitude |-> 10]

GeomInputs == (GeomArgs \X GeomMeshes) \cup {<<ScenarioArgs, ScenarioMesh>>}

\* the meshes the whole pipeline is run on: a point, a box, a flat sheet
PointMesh == << <<0, 0, 0>> >>
BoxMesh == << <<0, 0, 0>>, <<1, 1, 1>> >>
FlatMesh == << <<0, 0, 1>>, <<1, 1, 1>> >>
RunArgs == [resolution : {1, 2}, min_altitude : {0, 1}, max_altitude : {0}]
RunInputs == RunArgs \X {PointMesh, BoxMesh, FlatMesh}

Workers == 1..nthreads

(***************************************************************************)
(* Process exit.                                                           *)
(***************************************************************************)
\* std::exit(EXIT_FAILURE) in the catch block of a load
\* The process runs until it exits; pc then stays where the exit happened.
Running == exit_status = "running"

LoadFailureExitsZero == pc' = pc /\ exit_status' = "success"
LoadFailureExit == pc' = pc /\ exit_status' = "failure"

\* a load: either it succeeds, or it throws and the catch block ends the process
Load(file, next) ==
    \E ok \in BOOLEAN :
       IF ok THEN pc' = next /\ exit_status' = exit_status
                  /\ loads' = Append(loads, <<file, TRUE>>)
       ELSE LoadFailureExit /\ loads' = Append(loads, <<file, FALSE>>)

(***************************************************************************)
(* Sampler, main thread (src/unnamed/part_000).                            *)
(***************************************************************************)
\* lines 112-117: load_mesh_as_bvh_tree(args.proxy_mesh)
S_LoadProxyMesh ==
    /\ prog = "sampler" /\ pc = "s_load_bvh" /\ Running
    /\ Load("proxy_mesh", "s_load_mesh")
    /\ UNCHANGED <<prog, output, ndebug, svars, wvars, evars>>

\* lines 119-127: load_ply_mesh(args.airspace_mesh), mesh->get_vertices()
S_LoadAirspaceMesh ==
    /\ prog = "sampler" /\ pc = "s_load_mesh" /\ Running
    /\ Load("airspace_mesh", "s_aabb")
    /\ verts' = IF pc' = "s_aabb" THEN airspace ELSE verts
    /\ UNCHANGED <<prog, output, ndebug, args, airspace, nthreads, aabb, dims,
                   hmap, ground_level, sample_positions, wvars, evars>>

\* whether the assertion of line 132 stops the run: never when compiled out
AssertionIgnored(b) == FALSE
AssertionFires(b) == ~ndebug /\ ~AabbAssertion(b)

\* lines 130-132: calculate_aabb and the assertion on it
S_CheckAABB ==
    /\ prog = "sampler" /\ pc = "s_aabb" /\ Running
    /\ aabb' = calculate_aabb(verts)
    /\ IF AssertionFires(aabb')
       THEN pc' = pc /\ exit_status' = "abort"
       ELSE pc' = "s_dims" /\ exit_status' = exit_status
    /\ UNCHANGED <<prog, output, ndebug, loads, args, airspace, nthreads, verts, dims,
                   hmap, ground_level, sample_positions, wvars, evars>>

\* lines 134-138: the grid dimensions
S_ComputeDims ==
    /\ prog = "sampler" /\ pc = "s_dims" /\ Running
    /\ dims' = GridDims(aabb, args)
    /\ pc' = "s_hmap"
    /\ UNCHANGED <<prog, exit_status, output, ndebug, loads, args, airspace,
                   nthreads, verts, aabb, hmap, ground_level, sample_positions,
                   wvars, evars>>

\* lines 140-154: the height map and the scan of the vertices, with its assertions
S_CreateHeightMap ==
    /\ prog = "sampler" /\ pc = "s_hmap" /\ Running
    /\ IF ~ndebug /\ \E i \in 1..Len(verts) : ~CellInRange(CellOf(verts[i], aabb, args), dims)
       THEN pc' = pc /\ exit_status' = "abort" /\ hmap' = hmap
       ELSE /\ pc' = "s_ground" /\ exit_status' = exit_status
            /\ hmap' = BuildHeightMap(verts, aabb, dims, args)
    /\ UNCHANGED <<prog, output, ndebug, loads, args, airspace, nthreads, verts,
                   aabb, dims, ground_level, sample_positions, wvars, evars>>

\* lines 156-164: the min-reduction
S_EstimateGroundLevel ==
    /\ prog = "sampler" /\ pc = "s_ground" /\ Running
    /\ ground_level' = EstimateGroundLevel(hmap)
    /\ pc' = "s_normalize"
    /\ UNCHANGED <<prog, exit_status, output, ndebug, loads, args, airspace, nthreads,
                   verts, aabb, dims, hmap, sample_positions, wvars, evars>>

\* lines 166-170: the normalisation in place
S_NormalizeHeightMap ==
    /\ prog = "sampler" /\ pc = "s_normalize" /\ Running
    /\ hmap' = NormalizeHeightMap(hmap, ground_level)
    /\ pc' = "s_enum"
    /\ UNCHANGED <<prog, exit_status, output, ndebug, loads, args, airspace, nthreads,
                   verts, aabb, dims, ground_level, sample_positions, wvars, evars>>

\* lines 173-194: Volume::create and the list of sample positions
S_EnumerateSamples ==
    /\ prog = "sampler" /\ pc = "s_enum" /\ Running
    /\ sample_positions' = EnumerateSamples(hmap, ground_level, dims, args)
    /\ volume' = << >>
    /\ pc' = "s_cloud"
    /\ UNCHANGED <<prog, exit_status, output, ndebug, loads, args, airspace, nthreads,
                   verts, aabb, dims, hmap, ground_level, next_i, wpc, cur,
                   stream, dobs_hist, dhist, hist, wlog, calib_writers, counter,
                   evars>>

\* lines 196-211: the direction basis, then load_point_cloud(args.proxy_cloud)
S_LoadProxyCloud ==
    /\ prog = "sampler" /\ pc = "s_cloud" /\ Running
    /\ Load("proxy_cloud", "s_fork")
    /\ UNCHANGED <<prog, output, ndebug, svars, wvars, evars>>

(***************************************************************************)
(* Sampler, parallel region (lines 228-283).  Each worker owns a stream:   *)
(* the operations it enqueues run on the device one after the other, in    *)
(* the order of their enqueueing, while the worker goes on.                *)
(***************************************************************************)
\* what the evaluation of a histogram populated for sample i on a cleared
\* scratch histogram looks like
Populated(i) == <<"observations", i>>
ImageOf(content) == <<"image", content>>

Enqueue(w, op) == stream' = [stream EXCEPT ![w] = Append(@, op)]
Logged(w, e) == wlog' = [wlog EXCEPT ![w] = Append(@, e)]

\* line 228: #pragma omp parallel
S_ForkTeam ==
    /\ prog = "sampler" /\ pc = "s_fork" /\ Running
    /\ pc' = "s_join"
    /\ wpc' = [w \in Workers |-> "setup"]
    /\ cur' = [w \in Workers |-> 0]
    /\ stream' = [w \in Workers |-> << >>]
    /\ dobs_hist' = [w \in Workers |-> "unallocated"]
    /\ dhist' = [w \in Workers |-> "unallocated"]
    /\ hist' = [w \in Workers |-> "unallocated"]
    /\ wlog' = [w \in Workers |-> << >>]
    /\ next_i' = 1
    /\ calib_writers' = {}
    /\ counter' = 0
    /\ UNCHANGED <<prog, exit_status, output, ndebug, loads, svars, volume, evars>>

\* lines 230-245: stream, calibration, the worker's three buffers
W_Setup(w) ==
    /\ pc = "s_join" /\ wpc[w] = "setup"
    /\ calib_writers' = calib_writers \cup {w}
    /\ dobs_hist' = [dobs_hist EXCEPT ![w] = "uninitialized"]
    /\ dhist' = [dhist EXCEPT ![w] = "uninitialized"]
    /\ hist' = [hist EXCEPT ![w] = "uninitialized"]
    /\ wpc' = [wpc EXCEPT ![w] = "next"]
    /\ UNCHANGED <<prog, pc, exit_status, output, ndebug, loads, svars, volume, next_i,
                   cur, stream, wlog, counter, evars>>

\* lines 247-248: schedule(dynamic) hands the next iteration to the worker that
\* asks for one; a worker that finds none waits at the barrier ending the loop
W_NextIteration(w) ==
    /\ pc = "s_join" /\ wpc[w] = "next"
    /\ IF next_i <= Len(sample_positions)
       THEN /\ cur' = [cur EXCEPT ![w] = next_i]
            /\ next_i' = next_i + 1
            /\ wlog' = [wlog EXCEPT ![w] = << >>]
            /\ wpc' = [wpc EXCEPT ![w] = "clear"]
       ELSE /\ wpc' = [wpc EXCEPT ![w] = "barrier"]
            /\ UNCHANGED <<cur, next_i, wlog>>
    /\ UNCHANGED <<prog, pc, exit_status, output, ndebug, loads, svars, volume, stream,
                   dobs_hist, dhist, hist, calib_writers, counter, evars>>

\* lines 249-251: counter.progress(), dobs_hist->null()
W_Clear(w) ==
    /\ pc = "s_join" /\ wpc[w] = "clear"
    /\ Enqueue(w, <<"null">>)
    /\ wpc' = [wpc EXCEPT ![w] = "populate"]
    /\ UNCHANGED <<prog, pc, exit_status, output, ndebug, loads, svars, volume, next_i,
                   cur, dobs_hist, dhist, hist, wlog, calib_writers, counter, evars>>

\* lines 252-259: launch of populate_spherical_histogram on the stream
W_LaunchPopulate(w) ==
    /\ pc = "s_join" /\ wpc[w] = "populate"
    /\ Enqueue(w, <<"populate", cur[w]>>)
    /\ wpc' = [wpc EXCEPT ![w] = "evaluate"]
    /\ UNCHANGED <<prog, pc, exit_status, output, ndebug, loads, svars, volume, next_i,
                   cur, dobs_hist, dhist, hist, wlog, calib_writers, counter, evars>>

\* lines 261-267: launch of evaluate_spherical_histogram on the stream
W_LaunchEvaluate(w) ==
    /\ pc = "s_join" /\ wpc[w] = "evaluate"
    /\ Enqueue(w, <<"evaluate">>)
    /\ wpc' = [wpc EXCEPT ![w] = "copy"]
    /\ UNCHANGED <<prog, pc, exit_status, output, ndebug, loads, svars, volume, next_i,
                   cur, dobs_hist, dhist, hist, wlog, calib_writers, counter, evars>>

\* lines 269-270: *hist = *dhist, the copy to host memory, on the stream
W_CopyToHost(w) ==
    /\ pc = "s_join" /\ wpc[w] = "copy"
    /\ Enqueue(w, <<"copy">>)
    /\ wpc' = [wpc EXCEPT ![w] = "sync"]
    /\ UNCHANGED <<prog, pc, exit_status, output, ndebug, loads, svars, volume, next_i,
                   cur, dobs_hist, dhist, hist, wlog, calib_writers, counter, evars>>

\* hist->sync() returns once every operation enqueued on the stream has run
StreamNotAwaited(w) == TRUE
StreamDrained(w) == stream[w] = << >>

\* line 272: hist->sync()
W_Sync(w) ==
    /\ pc = "s_join" /\ wpc[w] = "sync"
    /\ StreamDrained(w)
    /\ Logged(w, "synchronized")
    /\ wpc' = [wpc EXCEPT ![w] = "store"]
    /\ UNCHANGED <<prog, pc, exit_status, output, ndebug, loads, svars, volume, next_i,
                   cur, stream, dobs_hist, dhist, hist, calib_writers, counter, evars>>

\* volume->at(sample_positions[i]) = image
StoreImage(vol, pos, img) ==
    [q \in (DOMAIN vol) \cup {pos} |-> IF q = pos THEN img ELSE vol[q]]

\* lines 274-280: the host image is read into a new image, which becomes the voxel's
W_Store(w) ==
    /\ pc = "s_join" /\ wpc[w] = "store"
    /\ volume' = StoreImage(volume, sample_positions[cur[w]], hist[w])
    /\ counter' = counter + 1
    /\ Logged(w, "stored")
    /\ wpc' = [wpc EXCEPT ![w] = "next"]
    /\ UNCHANGED <<prog, pc, exit_status, output, ndebug, loads, svars, next_i, cur,
                   stream, dobs_hist, dhist, hist, calib_writers, evars>>

\* line 282: cudaStreamDestroy, after the barrier that ends the loop
W_Destroy(w) ==
    /\ pc = "s_join" /\ wpc[w] = "barrier"
    /\ \A v \in Workers : wpc[v] \in {"barrier", "done"}
    /\ wpc' = [wpc EXCEPT ![w] = "done"]
    /\ UNCHANGED <<prog, pc, exit_status, output, ndebug, loads, svars, volume, next_i,
                   cur, stream, dobs_hist, dhist, hist, wlog, calib_writers,
                   counter, evars>>

\* the device runs the operation at the head of worker w's stream
D_Execute(w) ==
    /\ pc = "s_join" /\ stream[w] # << >>
    /\ LET op == Head(stream[w]) IN
          /\ CASE op[1] = "null" ->
                    /\ dobs_hist' = [dobs_hist EXCEPT ![w] = "zero"]
                    /\ Logged(w, "cleared")
                    /\ UNCHANGED <<dhist, hist>>
               [] op[1] = "populate" ->
                    /\ dobs_hist' = [dobs_hist EXCEPT ![w] =
                           IF @ = "zero" THEN Populated(op[2]) ELSE "garbage"]
                    /\ Logged(w, "populated")
                    /\ UNCHANGED <<dhist, hist>>
               [] op[1] = "evaluate" ->
                    /\ dhist' = [dhist EXCEPT ![w] = ImageOf(dobs_hist[w])]
                    /\ Logged(w, "evaluated")
                    /\ UNCHANGED <<dobs_hist, hist>>
               [] op[1] = "copy" ->
                    /\ hist' = [hist EXCEPT ![w] = dhist[w]]
                    /\ Logged(w, "copied")
                    /\ UNCHANGED <<dobs_hist, dhist>>
    /\ stream' = [stream EXCEPT ![w] = Tail(@)]
    /\ UNCHANGED <<prog, pc, exit_status, output, ndebug, loads, svars, volume, next_i,
                   wpc, cur, calib_writers, counter, evars>>

\* lines 283-287: the end of the parallel region, save_volume, return EXIT_SUCCESS
S_SaveVolume ==
    /\ prog = "sampler" /\ pc = "s_join" /\ Running
    /\ \A w \in Workers : wpc[w] = "done"
    /\ output' = output \cup {"volume"}
    /\ exit_status' = "success"
    /\ pc' = "s_return"
    /\ UNCHANGED <<prog, ndebug, loads, svars, wvars, evars>>

(***************************************************************************)
(* Evaluator (src/apps/evaluate_trajectory/evaluate_trajectory.cu).        *)
(*                                                                         *)
(* A camera pose is known to the model by what it sees of each point: the  *)
(* point projects inside the image or not, and the ray from the point to   *)
(* the camera hits the mesh or not.  Pose number j holds, for point p, the *)
(* p-th base-4 digit of j: bit 0 set = projects outside the image, bit 1   *)
(* set = occluded.                                                         *)
(***************************************************************************)
max_cameras == 20

Points == 1..NumPoints

RECURSIVE Pow4(_)
Pow4(n) == IF n = 0 THEN 1 ELSE 4 * Pow4(n - 1)

NumPoses == Pow4(NumPoints)
NullView == NumPoses       \* a view of the scene that holds no camera

PoseDigit(pose, p) == (pose \div Pow4(p - 1)) % 4
InBounds(p, pose) == PoseDigit(pose, p) % 2 = 0
Occluded(p, pose) == PoseDigit(pose, p) \div 2 = 1

\* the scenes: n views whose poses start anywhere and then stay, or change
\* what one point after the other sees (a step of 4^(p-1) changes point p);
\* the first view of a scene may be one that holds no camera
PoseSteps == {0} \cup {Pow4(p - 1) : p \in Points}
Scenes ==
    {[k \in 1..n |-> IF gap /\ k = 1 THEN NullView
                     ELSE (start + (k - 1) * step) % NumPoses] :
        n \in 0..MaxCams, start \in 0..(NumPoses - 1), step \in PoseSteps,
        gap \in BOOLEAN}

\* lines 84-87: the cameras of the views that exist
load_scene_as_trajectory(views) ==
    LET Exists(v) == v # NullView IN SelectSeq(views, Exists)

\* lines 146-149: VectorArray::create(num_vertices, max_cameras)
HistCapacityOneMore == max_cameras + 1
HistCapacity == max_cameras

EmptyRow == <<"empty">>
CreateDirHist(rows) ==
    [max_rows |-> rows,
     num_rows |-> [p \in Points |-> 0],
     data     |-> [p \in Points |-> [r \in 1..rows |-> EmptyRow]]]

\* the observation direction (azimuth, elevation) from point p to the k-th
\* camera of the trajectory, known by the camera it belongs to
Direction(p, k) == <<"dir", k>>

\* kernel populate_histogram, the thread of point p, for the k-th camera
AddsRow(h, p, pose) ==
    /\ InBounds(p, pose)
    /\ ~Occluded(p, pose)
    /\ h.num_rows[p] < h.max_rows

populate_histogram(h, k, pose) ==
    [max_rows |-> h.max_rows,
     num_rows |-> [p \in Points |->
                     IF AddsRow(h, p, pose) THEN h.num_rows[p] + 1
                     ELSE h.num_rows[p]],
     data     |-> [p \in Points |->
                     IF AddsRow(h, p, pose)
                     THEN [h.data[p] EXCEPT ![h.num_rows[p] + 1] = Direction(p, k)]
                     ELSE h.data[p]]]

\* kernel evaluate_histogram: the mean direction goes to the second-to-last
\* row, the eigen estimate to the last row
evaluate_histogram(h) ==
    [h EXCEPT !.data = [p \in Points |->
        [h.data[p] EXCEPT ![h.max_rows - 1] = <<"mean", p>>,
                          ![h.max_rows] = <<"eigen", p>>]]]

\* lines 220-223: the pose handed to the k-th launch
CameraOfLaunchFirst(k) == trajectory[1]
CameraOfLaunch(k) == trajectory[k]

\* lines 132-136
E_LoadProxyMesh ==
    /\ prog = "evaluator" /\ pc = "e_load_bvh" /\ Running
    /\ Load("proxy_mesh", "e_load_cloud")
    /\ UNCHANGED <<prog, output, ndebug, svars, wvars, evars>>

\* lines 138-149: the proxy cloud and the two row stores
E_LoadProxyCloud ==
    /\ prog = "evaluator" /\ pc = "e_load_cloud" /\ Running
    /\ Load("proxy_cloud", "e_load_scene")
    /\ IF pc' = "e_load_scene"
       THEN /\ ddir_hist' = CreateDirHist(HistCapacity)
            /\ hdir_hist' = CreateDirHist(HistCapacity)
       ELSE UNCHANGED <<ddir_hist, hdir_hist>>
    /\ UNCHANGED <<prog, output, ndebug, svars, wvars, scene, trajectory, cam_i,
                   values>>

\* lines 151-152
E_LoadScene ==
    /\ prog = "evaluator" /\ pc = "e_load_scene" /\ Running
    /\ Load("scene", "e_populate")
    /\ IF pc' = "e_populate"
       THEN trajectory' = load_scene_as_trajectory(scene) /\ cam_i' = 0
       ELSE UNCHANGED <<trajectory, cam_i>>
    /\ UNCHANGED <<prog, output, ndebug, svars, wvars, scene, ddir_hist,
                   hdir_hist, values>>

\* lines 220-229: one turn of the loop over the trajectory; the launches run
\* on one stream, each after the one before
E_LaunchPopulate ==
    /\ prog = "evaluator" /\ pc = "e_populate" /\ Running
    /\ cam_i < Len(trajectory)
    /\ cam_i' = cam_i + 1
    /\ ddir_hist' = populate_histogram(ddir_hist, cam_i + 1, CameraOfLaunch(cam_i + 1))
    /\ UNCHANGED <<prog, pc, exit_status, output, ndebug, loads, svars,
                   wvars, scene, trajectory, hdir_hist, values>>

\* line 231: cudaDeviceSynchronize after the loop
E_Synchronize ==
    /\ prog = "evaluator" /\ pc = "e_populate" /\ Running
    /\ cam_i = Len(trajectory)
    /\ pc' = "e_evaluate"
    /\ UNCHANGED <<prog, exit_status, output, ndebug, loads, svars,
                   wvars, evars>>

\* lines 237-242
E_Evaluate ==
    /\ prog = "evaluator" /\ pc = "e_evaluate" /\ Running
    /\ ddir_hist' = evaluate_histogram(ddir_hist)
    /\ pc' = "e_copy"
    /\ UNCHANGED <<prog, exit_status, output, ndebug, loads, svars,
                   wvars, scene, trajectory, cam_i, hdir_hist, values>>

\* line 244: *hdir_hist = *ddir_hist
E_CopyToHost ==
    /\ prog = "evaluator" /\ pc = "e_copy" /\ Running
    /\ hdir_hist' = ddir_hist
    /\ pc' = "e_export"
    /\ UNCHANGED <<prog, exit_status, output, ndebug, loads, svars,
                   wvars, scene, trajectory, cam_i, ddir_hist, values>>

\* lines 263-266: the scalar of point p, from rows max_cameras - 2 and
\* max_cameras - 1 (counted from 0)
QualityValue(h, p) ==
    <<"quality", h.data[p][max_cameras - 1], h.data[p][max_cameras]>>

\* lines 247-254: with an export path, the proxy cloud is loaded once more
E_ExportLoad ==
    /\ prog = "evaluator" /\ pc = "e_export" /\ Running
    /\ IF args.export
       THEN Load("proxy_cloud", "e_save")
       ELSE pc' = "e_return" /\ UNCHANGED <<exit_status, loads>>
    /\ UNCHANGED <<prog, output, ndebug, svars, wvars, evars>>

\* lines 256-270: the per-point values and save_ply_mesh
E_SaveCloud ==
    /\ prog = "evaluator" /\ pc = "e_save" /\ Running
    /\ values' = [p \in Points |-> QualityValue(hdir_hist, p)]
    /\ output' = output \cup {"export_cloud"}
    /\ pc' = "e_return"
    /\ UNCHANGED <<prog, exit_status, ndebug, loads, svars, wvars, scene,
                   trajectory, cam_i, ddir_hist, hdir_hist>>

\* line 272: main ends, the process exits with status 0
E_Return ==
    /\ prog = "evaluator" /\ pc = "e_return" /\ Running
    /\ exit_status' = "success"
    /\ pc' = pc
    /\ UNCHANGED <<prog, output, ndebug, loads, svars, wvars, evars>>

(***************************************************************************)
(* The specifications.                                                     *)
(***************************************************************************)
NoWorkers ==
    /\ volume = NoValue /\ next_i = 0 /\ wpc = << >> /\ cur = << >>
    /\ stream = << >> /\ dobs_hist = << >> /\ dhist = << >> /\ hist = << >>
    /\ wlog = << >> /\ calib_writers = {} /\ counter = 0

Common ==
    /\ exit_status = "running" /\ output = {} /\ loads = << >>
    /\ ndebug \in BOOLEAN

\* the sampler, started on one of `inputs` with a team of one of `teams` workers
InitSampler(inputs, teams) ==
    /\ prog = "sampler" /\ pc = "s_load_bvh" /\ Common
    /\ \E in \in inputs : args = in[1] /\ airspace = in[2]
    /\ nthreads \in teams
    /\ verts = NoValue /\ aabb = NoValue /\ dims = NoValue /\ hmap = NoValue
    /\ ground_level = NoValue /\ sample_positions = NoValue
    /\ NoWorkers
    /\ scene = NoValue /\ trajectory = NoValue /\ cam_i = 0
    /\ ddir_hist = NoValue /\ hdir_hist = NoValue /\ values = NoValue

InitEvaluator ==
    /\ prog = "evaluator" /\ pc = "e_load_bvh" /\ Common
    /\ args \in [export : BOOLEAN]
    /\ scene \in Scenes
    /\ airspace = NoValue /\ nthreads = 0
    /\ verts = NoValue /\ aabb = NoValue /\ dims = NoValue /\ hmap = NoValue
    /\ ground_level = NoValue /\ sample_positions = NoValue
    /\ NoWorkers
    /\ trajectory = NoValue /\ cam_i = 0
    /\ ddir_hist = NoValue /\ hdir_hist = NoValue /\ values = NoValue

Init == InitSampler(RunInputs, 1..MaxThreads) \/ InitEvaluator

\* the main thread of the sampler up to the list of sample positions
NextGeom ==
    \/ S_LoadProxyMesh
    \/ S_LoadAirspaceMesh
    \/ S_CheckAABB
    \/ S_ComputeDims
    \/ S_CreateHeightMap
    \/ S_EstimateGroundLevel
    \/ S_NormalizeHeightMap
    \/ S_EnumerateSamples

NextWorkers ==
    \/ \E w \in Workers : W_Setup(w)
    \/ \E w \in Workers : W_NextIteration(w)
    \/ \E w \in Workers : W_Clear(w)
    \/ \E w \in Workers : W_LaunchPopulate(w)
    \/ \E w \in Workers : W_LaunchEvaluate(w)
    \/ \E w \in Workers : W_CopyToHost(w)
    \/ \E w \in Workers : W_Sync(w)
    \/ \E w \in Workers : W_Store(w)
    \/ \E w \in Workers : W_Destroy(w)
    \/ \E w \in Workers : D_Execute(w)

NextEvaluator ==
    \/ E_LoadProxyMesh
    \/ E_LoadProxyCloud
    \/ E_LoadScene
    \/ E_LaunchPopulate
    \/ E_Synchronize
    \/ E_Evaluate
    \/ E_CopyToHost
    \/ E_ExportLoad
    \/ E_SaveCloud
    \/ E_Return

Next ==
    \/ NextGeom
    \/ S_LoadProxyCloud
    \/ S_ForkTeam
    \/ NextWorkers
    \/ S_SaveVolume
    \/ NextEvaluator

\* both programs, from start to exit
Spec == Init /\ [][Next]_vars

\* the sampler on every small mesh, from start to the list of sample positions
SpecGeom == InitSampler(GeomInputs, {1}) /\ [][NextGeom]_vars

(***************************************************************************)
(* Vocabulary of the properties.                                           *)
(***************************************************************************)
SamplerOrder ==
    <<"s_load_bvh", "s_load_mesh", "s_aabb", "s_dims", "s_hmap", "s_ground",
      "s_normalize", "s_enum", "s_cloud", "s_fork", "s_join", "s_return">>

PlaceOf(place) == CHOOSE i \in 1..Len(SamplerOrder) : SamplerOrder[i] = place

\* the main thread of the sampler has come to `place`, or further
Reached(place) == prog = "sampler" /\ PlaceOf(pc) >= PlaceOf(place)

\* the bounding box has been computed (also when the assertion then stopped the run)
AabbComputed ==
    \/ Reached("s_dims")
    \/ prog = "sampler" /\ pc = "s_aabb" /\ exit_status = "abort"

FloorDiv(n, d) == n \div d
CeilDiv(n, d) == -((-n) \div d)

SetMax(S) == CHOOSE m \in S : \A e \in S : m >= e
SetMin(S) == CHOOSE m \in S : \A e \in S : m <= e

\* the heights of the vertices that lie in cell c: the cell of a vertex is the
\* one whose square [c * resolution, (c + 1) * resolution) holds its offset
\* from the minimum corner
InCell(v, c) ==
    /\ c[1] * args.resolution <= v[1] - aabb.min[1]
    /\ v[1] - aabb.min[1] < (c[1] + 1) * args.resolution
    /\ c[2] * args.resolution <= v[2] - aabb.min[2]
    /\ v[2] - aabb.min[2] < (c[2] + 1) * args.resolution
HeightsIn(c) == {verts[i][3] : i \in {j \in 1..Len(verts) : InCell(verts[j], c)}}
OccupiedCells == {c \in Cells(dims) : HeightsIn(c) # {}}

\* the voxels of the grid, and those of one column that are in the list
Grid == (0..(dims.width - 1)) \X (0..(dims.height - 1)) \X (0..(dims.depth - 1))
Listed == {sample_positions[i] : i \in 1..Len(sample_positions)}
Emitted(c) == {z \in 0..(dims.depth - 1) : <<c[1], c[2], z>> \in Listed}

\* C1 (as claimed): a mesh whose bounding box has no volume is stopped at the
\* check of the box: no height map, no volume, no list of sample positions is
\* made for it and no worker ever runs.
C1_DegenerateRejected ==
    (prog = "sampler" /\ AabbComputed /\ AabbVolume(aabb) = 0)
        => (pc = "s_aabb" /\ exit_status = "abort" /\ wpc = << >>)

\* C2: after the scan every cell some vertex lies in holds the greatest height
\* among the vertices in it, whatever their order (every other cell is still
\* unset); after the normalisation a cell no vertex lies in holds 0, a cell
\* some vertex lies in holds its greatest height minus the ground level, and
\* the least value over those cells is 0.
C2_HeightMap ==
    /\ (Reached("s_ground") /\ ~Reached("s_enum")) =>
          /\ DOMAIN hmap = Cells(dims)
          /\ \A c \in Cells(dims) :
                hmap[c] = IF c \in OccupiedCells THEN SetMax(HeightsIn(c)) ELSE lowest
    /\ Reached("s_enum") =>
          /\ OccupiedCells # {}
          /\ ground_level = SetMin({SetMax(HeightsIn(c)) : c \in OccupiedCells})
          /\ \A c \in Cells(dims) :
                hmap[c] = IF c \in OccupiedCells
                          THEN SetMax(HeightsIn(c)) - ground_level ELSE 0
          /\ SetMin({hmap[c] : c \in OccupiedCells}) = 0

\* a normalised map with a cell no vertex lies in, a cell whose highest vertex
\* is followed in the list by a lower one, and a ground level other than 0
C2_Witness ==
    /\ Reached("s_enum")
    /\ Cells(dims) \ OccupiedCells # {}
    /\ ground_level # 0
    /\ \E i, j \in 1..Len(verts) :
          /\ i < j /\ verts[i][3] > verts[j][3]
          /\ CellOf(verts[i], aabb, args) = CellOf(verts[j], aabb, args)
    /\ \E c \in OccupiedCells : hmap[c] > 0

\* C3 (as claimed): the grid has ceil((max - min) / resolution) + 1 cells
\* along x and along y.
C3_CeilPlusOne ==
    Reached("s_hmap") =>
        /\ dims.width = CeilDiv(aabb.max[1] - aabb.min[1], args.resolution) + 1
        /\ dims.height = CeilDiv(aabb.max[2] - aabb.min[2], args.resolution) + 1

\* C3 (amended): the grid has floor((max - min) / resolution) + 1 cells along
\* x and along y, and the height map has exactly these cells.
C3_FloorPlusOne ==
    /\ Reached("s_hmap") =>
          /\ dims.width = FloorDiv(aabb.max[1] - aabb.min[1], args.resolution) + 1
          /\ dims.height = FloorDiv(aabb.max[2] - aabb.min[2], args.resolution) + 1
    /\ Reached("s_ground") =>
          DOMAIN hmap = (0..(dims.width - 1)) \X (0..(dims.height - 1))

\* a grid whose extent is not a multiple of the resolution
C3_Witness ==
    /\ Reached("s_ground")
    /\ (aabb.max[1] - aabb.min[1]) % args.resolution # 0
    /\ dims.width = 1 /\ dims.height = 1

\* C4: a voxel of the grid is in the list exactly when ground_level +
\* z * resolution is at least max(height_map(x, y), min_altitude); the list
\* holds no voxel twice and nothing but voxels of the grid.
C4_Enumeration ==
    Reached("s_cloud") =>
        /\ \A p \in Grid :
              (p \in Listed) <=>
                  (ground_level + p[3] * args.resolution
                      >= Max2(hmap[<<p[1], p[2]>>], args.min_altitude))
        /\ Listed \subseteq Grid
        /\ Cardinality(Listed) = Len(sample_positions)

\* a list that leaves out a voxel below the height map, one below the minimum
\* altitude only, and holds a voxel above both
C4_Witness ==
    /\ Reached("s_cloud")
    /\ \E p \in Grid \ Listed :
          ground_level + p[3] * args.resolution < hmap[<<p[1], p[2]>>]
    /\ \E p \in Grid \ Listed :
          /\ ground_level + p[3] * args.resolution >= hmap[<<p[1], p[2]>>]
          /\ ground_level + p[3] * args.resolution < args.min_altitude
    /\ Listed # {}

\* the height map before normalisation was flat: every cell held the same height
FlatMap == \A c \in Cells(dims) : c \in OccupiedCells /\ SetMax(HeightsIn(c)) = ground_level

\* C5 (as claimed): for a flat height map of height h and min_altitude = 0
\* every column emits depth - floor((h - ground_level) / resolution) voxels,
\* not less than 0, whatever h is.
C5_FlatColumnCount ==
    (Reached("s_cloud") /\ args.min_altitude = 0 /\ FlatMap) =>
        \A c \in Cells(dims) :
            Cardinality(Emitted(c)) =
                Max2(0, dims.depth - FloorDiv(SetMax(HeightsIn(c)) - ground_level,
                                              args.resolution))

Scenario == prog = "sampler" /\ airspace = ScenarioMesh /\ args = ScenarioArgs

Populating == prog = "evaluator" /\ pc = "e_populate"

VisibleFrom(p, k) ==
    InBounds(p, trajectory[k]) /\ ~Occluded(p, trajectory[k])

\* the cameras before the k-th that saw point p
SeenBefore(p, k) == Cardinality({j \in 1..(k - 1) : VisibleFrom(p, j)})

\* the rows of point p that hold the observation of camera k
RowsOf(p, k) ==
    {r \in 1..ddir_hist.max_rows : ddir_hist.data[p][r] = Direction(p, k)}

RowBound ==
    (prog = "evaluator" /\ pc \notin {"e_load_bvh", "e_load_cloud"}) =>
        \A p \in Points :
            /\ ddir_hist.num_rows[p] <= max_cameras
            /\ hdir_hist.num_rows[p] <= max_cameras

\* a launch for a camera that sees a point whose row store is full changes
\* neither that point's row count nor any row of any point, and the run goes on
FullStoreDrops ==
    (Populating /\ cam_i' = cam_i + 1) =>
        \A p \in Points :
            (VisibleFrom(p, cam_i + 1) /\ ddir_hist.num_rows[p] = max_cameras) =>
                /\ ddir_hist'.num_rows[p] = max_cameras
                /\ ddir_hist'.data[p] = ddir_hist.data[p]
                /\ \A q \in Points : \A r \in 1..ddir_hist.num_rows[q] :
                      ddir_hist'.data[q][r] = ddir_hist.data[q][r]
                /\ exit_status' = "running"

\* C6: no point ever has more than max_cameras rows, and an observation that
\* arrives at a point with max_cameras rows leaves that point's row count and
\* the stored rows of every point as they are and ends nothing.
C6_RowStoreBound == []RowBound /\ [][FullStoreDrops]_vars

\* a point that has max_cameras rows and has been seen by more cameras than that
C6_Witness ==
    /\ Populating
    /\ \E p \in Points :
          /\ ddir_hist.num_rows[p] = max_cameras
          /\ SeenBefore(p, cam_i + 1) > max_cameras
    /\ \E q \in Points : ddir_hist.num_rows[q] < max_cameras /\ ddir_hist.num_rows[q] > 0

\* C7 (as claimed): a point gets no row for a camera it projects outside the
\* image of or is occluded from, and exactly one row for a camera that sees it.
C7_OneRowPerSeeingCamera ==
    Populating =>
        \A p \in Points : \A k \in 1..cam_i :
            Cardinality(RowsOf(p, k)) = IF VisibleFrom(p, k) THEN 1 ELSE 0

\* C7 (amended): a point gets no row for a camera it projects outside the
\* image of or is occluded from; for a camera that sees it, it gets exactly
\* one row when fewer than max_cameras earlier cameras saw it, and none
\* otherwise.
C7_OneRowWhileRoom ==
    Populating =>
        \A p \in Points : \A k \in 1..cam_i :
            Cardinality(RowsOf(p, k)) =
                IF VisibleFrom(p, k) /\ SeenBefore(p, k) < max_cameras THEN 1 ELSE 0

\* a trajectory in which one camera sees a point, another is occluded from it,
\* a third has it outside the image, and a fourth finds its row store full
C7_Witness ==
    /\ Populating
    /\ \E p \in Points :
          /\ \E k \in 1..cam_i : VisibleFrom(p, k) /\ SeenBefore(p, k) >= max_cameras
    /\ \E p \in Points :
          /\ \E k \in 1..cam_i : VisibleFrom(p, k) /\ Cardinality(RowsOf(p, k)) = 1
          /\ \E k \in 1..cam_i : Occluded(p, trajectory[k]) /\ InBounds(p, trajectory[k])
          /\ \E k \in 1..cam_i : ~InBounds(p, trajectory[k]) /\ ~Occluded(p, trajectory[k])

(***************************************************************************)
(* Properties of the exits.                                                *)
(***************************************************************************)
FailedLoad == \E i \in 1..Len(loads) : ~loads[i][2]
Loaded == [i \in 1..Len(loads) |-> loads[i][1]]

\* the loads a run makes before it writes its output
LoadsBeforeOutput ==
    IF prog = "sampler" THEN <<"proxy_mesh", "airspace_mesh", "proxy_cloud">>
    ELSE <<"proxy_mesh", "proxy_cloud", "scene", "proxy_cloud">>

\* C9: once a load has failed the process has ended with a status other than
\* 0 and no output file exists; an output file exists only when every load of
\* the run has been made and has succeeded, and the process then ends with
\* status 0 (nothing but the return from main is left to do).
C9_LoadFailure ==
    /\ FailedLoad => (exit_status = "failure" /\ output = {})
    /\ output # {} =>
          /\ ~FailedLoad
          /\ Loaded = LoadsBeforeOutput
          /\ output = IF prog = "sampler" THEN {"volume"} ELSE {"export_cloud"}
          /\ \/ exit_status = "success"
             \/ prog = "evaluator" /\ pc = "e_return" /\ exit_status = "running"
    /\ exit_status = "success" => ~FailedLoad

\* the evaluator, all cameras applied, fails to load the cloud for the export
C9_Witness ==
    /\ prog = "evaluator" /\ pc = "e_export" /\ cam_i > 0
    /\ Len(loads) = 4 /\ ~loads[4][2]
    /\ exit_status = "failure" /\ output = {}

(***************************************************************************)
(* Properties of a worker's steps.                                         *)
(***************************************************************************)
SampleOrder ==
    <<"cleared", "populated", "evaluated", "copied", "synchronized", "stored">>

IsPrefix(s, t) == Len(s) <= Len(t) /\ \A i \in 1..Len(s) : s[i] = t[i]

\* C10: for every sample a worker handles, the scratch histogram is cleared,
\* then populated, then evaluated, then the image is copied to the host, then
\* the stream is synchronized, and only then the host image is read and
\* stored; the image stored for a sample is the evaluation of the histogram
\* populated for that sample alone; nothing of the next sample touches the
\* worker's buffers before that.
C10_StepOrder ==
    (prog = "sampler" /\ Reached("s_join")) =>
        /\ \A w \in Workers :
              /\ IsPrefix(wlog[w], SampleOrder)
              /\ wpc[w] = "store" =>
                    /\ wlog[w] = SubSeq(SampleOrder, 1, 5)
                    /\ stream[w] = << >>
                    /\ hist[w] = ImageOf(Populated(cur[w]))
              /\ wpc[w] \in {"clear", "populate"} =>
                    \A i \in 1..Len(stream[w]) : stream[w][i] = <<"null">>
        /\ \A i \in 1..Len(sample_positions) :
              sample_positions[i] \in DOMAIN volume =>
                  volume[sample_positions[i]] = ImageOf(Populated(i))

\* a worker about to store the image of a sample, after it stored another's
C10_Witness ==
    /\ prog = "sampler" /\ pc = "s_join" /\ nthreads = 1
    /\ wpc[1] = "store" /\ cur[1] = 2 /\ counter = 1
    /\ hist[1] = ImageOf(Populated(2))

\* the iterations handed out so far went to different workers
SamplesTakenOnce ==
    \A v, w \in Workers : (v # w /\ cur[v] # 0 /\ cur[w] # 0) => cur[v] # cur[w]

\* as many stores have been made as voxels own an image, and once the team
\* has finished every sample position owns one
SlotsWrittenOnce ==
    /\ DOMAIN volume \subseteq Listed
    /\ counter = Cardinality(DOMAIN volume)
    /\ (\A w \in Workers : wpc[w] = "done") => DOMAIN volume = Listed

\* the calibration matrix, declared before the parallel region (line 215),
\* has at most one writer among the workers
CalibrationSingleWriter == Cardinality(calib_writers) <= 1

\* C11 (as claimed): in the parallel region no location shared between the
\* workers is written by more than one of them: every sample position is
\* taken by exactly one worker, every voxel's image slot is written exactly
\* once, and the camera calibration is not written by two workers.
C11_NoSharedWriteByTwo ==
    Reached("s_join") =>
        /\ SamplesTakenOnce
        /\ SlotsWrittenOnce
        /\ CalibrationSingleWriter

\* the part of C11 about the sample positions and the voxel slots
SampleWritesDisjoint == Reached("s_join") => (SamplesTakenOnce /\ SlotsWrittenOnce)

====
